---- MODULE Spec2Model ----
(***************************************************************************)
(* Site features script of the portfolio (dark mode toggle, responsive     *)
(* placement of the toggle, hamburger navigation).  The page is modelled   *)
(* as a small DOM tree (children lists), the persisted preference store,   *)
(* the viewport width and the event handlers the script registers.  Each   *)
(* action is one browser event handled to completion (the event loop is    *)
(* single threaded).                                                       *)
(***************************************************************************)
EXTENDS Integers, Sequences, FiniteSets, TLC

\* ------------------------------------------------------------------------
\* Bounds of the model
\* ------------------------------------------------------------------------

\* Viewport widths explored: MOBILE_BREAKPOINT - WidthSpread + 1 .. MOBILE_BREAKPOINT + WidthSpread
WidthSpread == 1

\* Caps on the elements a page load may create (the code creates at most one of each).
MaxContainers == 2

MaxCreatedToggles == 2

MaxHamburgers == 2

\* initializeAll calls of the scroll-hide variant (each registers a scroll listener)
MaxScrollInits == 2

\* timers a page may set
MaxTimers == 4

\* filter buttons and project cards of the projects page
MaxFilterButtons == 4

MaxCards == 3

\* initializeAll calls on the projects page (each registers the click listeners again)
MaxFilterInits == 2

\* ------------------------------------------------------------------------
\* Program constants
\* ------------------------------------------------------------------------

MOBILE_BREAKPOINT == 768

\* features.darkMode
darkModeEnabled == TRUE

Widths == (MOBILE_BREAKPOINT - WidthSpread + 1)..(MOBILE_BREAKPOINT + WidthSpread)

\* ------------------------------------------------------------------------
\* Elements
\* ------------------------------------------------------------------------

NoNode == "null"

Body == "body"

Nav == "nav"

\* an <a> inside the nav
NavLink == "a1"

\* page content outside nav, toggles and containers (a click target)
Main == "main"

\* toggle instances written in the markup (class theme-toggle)
MarkupToggles == {"t1", "t2"}

\* containers written in the markup
MarkupMobileTools == "mtools"

MarkupHeaderActions == "hactions"

\* elements document.createElement may return, in creation order
TogglePool == <<"tb1", "tb2", "tb3", "tb4">>

ContainerPool == <<"mc1", "mc2", "mc3", "mc4">>

HamburgerPool == <<"ham1", "ham2", "ham3", "ham4">>

SeqRange(s) == {s[i] : i \in 1..Len(s)}

CreatedToggles == {TogglePool[i] : i \in 1..(MaxCreatedToggles + 1)}

CreatedContainers == {ContainerPool[i] : i \in 1..(MaxContainers + 1)}

CreatedHamburgers == {HamburgerPool[i] : i \in 1..(MaxHamburgers + 1)}

\* class theme-toggle
ToggleNodes == MarkupToggles \cup CreatedToggles

\* class mobile-tools
MobileToolsNodes == {MarkupMobileTools} \cup CreatedContainers

\* class header-actions
HeaderActionsNodes == {MarkupHeaderActions}

\* class nav-toggle
NavToggleNodes == CreatedHamburgers

Nodes ==
    {Body, Nav, NavLink, Main, MarkupMobileTools, MarkupHeaderActions}
        \cup ToggleNodes \cup CreatedContainers \cup CreatedHamburgers

Min(a, b) == IF a < b THEN a ELSE b

\* ------------------------------------------------------------------------
\* DOM primitives over kids : [Nodes -> Seq(Nodes)] (children in order)
\* ------------------------------------------------------------------------

RECURSIVE PreorderSeq(_, _)
PreorderSeq(kids, s) ==
    IF s = <<>> THEN <<>>
    ELSE <<Head(s)>> \o PreorderSeq(kids, kids[Head(s)]) \o PreorderSeq(kids, Tail(s))

\* the elements of the document, in document order
DocOrder(kids) == PreorderSeq(kids, <<Body>>)

\* node.contains(other): other is node or a descendant of node
Contains(kids, n, other) == other \in SeqRange(PreorderSeq(kids, <<n>>))

\* the parents that list n as a child (one for a well-formed tree)
ParentsOf(kids, n) == {p \in Nodes : n \in SeqRange(kids[p])}

\* n.parentNode
ParentNode(kids, n) ==
    IF ParentsOf(kids, n) = {} THEN NoNode ELSE CHOOSE p \in ParentsOf(kids, n) : TRUE

\* document.querySelector(sel): first element of the class in document order
QuerySelector(kids, class) ==
    LET ord == DocOrder(kids)
        hits == {i \in 1..Len(ord) : ord[i] \in class}
    IN  IF hits = {} THEN NoNode
        ELSE ord[CHOOSE i \in hits : \A j \in hits : i <= j]

\* document.querySelectorAll(sel)
QuerySelectorAll(kids, class) == SeqRange(DocOrder(kids)) \cap class

Without(s, n) == SelectSeq(s, LAMBDA x : x # n)

\* detach n from wherever it is
Detach(kids, n) == [p \in Nodes |-> Without(kids[p], n)]

IndexOf(s, n) == CHOOSE i \in 1..Len(s) : s[i] = n

InsertAt(s, i, n) == SubSeq(s, 1, i - 1) \o <<n>> \o SubSeq(s, i, Len(s))

\* appendChild without removing the node from its old parent (a copy, not a move)
AppendChildKeepingOld(kids, p, n) == [kids EXCEPT ![p] = Append(@, n)]

\* p.appendChild(n): n is moved from its current parent to the end of p
AppendChild(kids, p, n) ==
    LET k == Detach(kids, n) IN [k EXCEPT ![p] = Append(@, n)]

\* p.insertBefore(n, ref); ref = null appends
InsertBefore(kids, p, n, ref) ==
    LET k == Detach(kids, n)
    IN  IF ref = NoNode \/ ref \notin SeqRange(k[p])
        THEN [k EXCEPT ![p] = Append(@, n)]
        ELSE [k EXCEPT ![p] = InsertAt(@, IndexOf(@, ref), n)]

\* n.nextSibling
NextSibling(kids, n) ==
    LET p == ParentNode(kids, n)
    IN  IF p = NoNode THEN NoNode
        ELSE LET s == kids[p]
                 i == IndexOf(s, n)
             IN  IF i < Len(s) THEN s[i + 1] ELSE NoNode

\* document.body.firstChild
FirstChild(kids, p) == IF kids[p] = <<>> THEN NoNode ELSE Head(kids[p])

\* ------------------------------------------------------------------------
\* Page markup (the document the script is loaded into)
\* ------------------------------------------------------------------------

MarkupItems == MarkupToggles \cup {MarkupMobileTools, MarkupHeaderActions}

\* an item of the markup sits "before" the nav, "innav", "after" it, or is "absent"
\* order of the items that share a place
ItemOrder == <<"t1", "hactions", "mtools", "t2">>

\* the second markup toggle lacks its label ("noLabel") or its icon ("noIcon")
\* (place of t1, place of t2): t1 never follows t2 in the document
TogglePlacings ==
    {<<"absent", "absent">>, <<"before", "absent">>, <<"innav", "absent">>,
     <<"after", "absent">>, <<"before", "before">>, <<"before", "innav">>,
     <<"before", "after">>, <<"innav", "innav">>, <<"innav", "after">>,
     <<"after", "after">>}

\* (place of .mobile-tools, place of .header-actions)
ContainerPlacings ==
    {<<"absent", "absent">>, <<"after", "absent">>, <<"absent", "before">>,
     <<"after", "before">>}

Markup(nav, tp, cp, kind) ==
    [nav |-> nav,
     place |-> [i \in MarkupItems |->
                  CASE i = "t1" -> tp[1]
                    [] i = "t2" -> tp[2]
                    [] i = MarkupMobileTools -> cp[1]
                    [] OTHER -> cp[2]],
     t2kind |-> kind]

\* without a nav everything sits in the body; the second toggle lacks its icon
\* only in the documents where both toggles sit before the nav
Markups ==
    {Markup(TRUE, tp, cp, "noLabel") : tp \in TogglePlacings, cp \in ContainerPlacings}
    \cup {Markup(TRUE, <<"before", "before">>, cp, "noIcon") : cp \in ContainerPlacings}
    \cup {Markup(FALSE, tp, cp, k) :
            tp \in {<<"absent", "absent">>, <<"before", "absent">>, <<"before", "before">>},
            cp \in {<<"absent", "absent">>, <<"before", "absent">>, <<"absent", "before">>},
            k \in {"noLabel"}}
    \cup {Markup(FALSE, <<"before", "before">>, <<"absent", "absent">>, "noIcon")}

ItemsAt(m, p) == SelectSeq(ItemOrder, LAMBDA i : m.place[i] = p)

\* glyphs and labels shown by a toggle instance; NoElt: the sub-element is missing
NoElt == "none"

Glyph(isDark) == IF isDark THEN "sun" ELSE "moon"

LabelText(isDark) == IF isDark THEN "Light" ELSE "Dark"

\* the tree, markers and display fields of the freshly parsed markup
MarkupKids(m) ==
    [n \in Nodes |->
        CASE n = Body ->
                ItemsAt(m, "before") \o (IF m.nav THEN <<Nav>> ELSE <<>>)
                    \o <<Main>> \o ItemsAt(m, "after")
          [] n = Nav -> IF m.nav THEN <<NavLink>> \o ItemsAt(m, "innav") ELSE <<>>
          [] OTHER -> <<>>]

MarkupIcon(m) ==
    [t \in ToggleNodes |->
        IF t \in MarkupToggles /\ m.place[t] # "absent" /\ ~(t = "t2" /\ m.t2kind = "noIcon")
        THEN Glyph(FALSE) ELSE NoElt]

MarkupLabel(m) ==
    [t \in ToggleNodes |->
        IF t \in MarkupToggles /\ m.place[t] # "absent" /\ ~(t = "t2" /\ m.t2kind = "noLabel")
        THEN LabelText(FALSE) ELSE NoElt]

\* ------------------------------------------------------------------------
\* State
\* ------------------------------------------------------------------------

VARIABLES
    markup,          \* the page's markup (fixed; a reload parses it again)
    kids,            \* DOM tree: children of every element, in order
    mobileMarked,    \* toggle instances carrying class theme-toggle-mobile
    icon,            \* textContent of each toggle's .theme-icon (NoElt if missing)
    label,           \* textContent of each toggle's .theme-text (NoElt if missing)
    darkTheme,       \* document.body carries class dark-theme
    store,           \* localStorage 'theme' ("absent" when unset)
    storeMode,       \* "ok", "readonly" (setItem throws), "denied" (any access throws)
    innerWidth,      \* window.innerWidth
    pageState,       \* "fresh", "evaluated", "ready", "aborted"
    resizeListeners, \* listeners of window 'resize', in registration order
    mobileInit,      \* nav.dataset.mobileInit === 'true'
    hamburger,       \* the nav-toggle button of initMobileNav's closure
    navOpen,         \* nav carries class nav-open
    navDisplay,      \* nav.style.display
    hamDisplay,      \* hamburger.style.display
    ariaExpanded,    \* hamburger aria-expanded = "true"
    lastOp,          \* the event handled last
    lastThrew,       \* an exception escaped the handler of the last event
    placeLog,        \* placement calls made while handling the last event
    placedClass,     \* viewport class of the latest placement call of this page load
    lastSaved,       \* theme the latest completed toggle persisted ("none" so far)
    storeReads,      \* localStorage.getItem calls made while handling the last event
    storeWrites,     \* localStorage.setItem calls completed while handling the last event
    warned,          \* console.warn was called while handling the last event
    clickTarget,     \* e.target of the click handled last (NoNode: not a click)
    \* scroll-hide variant of the script
    scrollListeners, \* number of 'scroll' listeners registered on window
    pageYOffset,     \* window.pageYOffset
    lastScrollTop,   \* lastScrollTop
    scrollTimeout,   \* scrollTimeout: id of the timer set last (0: undefined)
    pendingTimers,   \* ids of the timers set and neither fired nor cleared
    nextTimerId,     \* the id the next setTimeout returns
    navHidden,       \* nav carries class nav-hidden
    evalsSinceSignal,\* timer callbacks run since the last scroll signal that set a timer
    burstSignals,    \* scroll signals that set a timer since the evaluation before last
    scrollOp,        \* the scroll-variant event handled last
    \* project filters
    filterScript,    \* the script the page loads: "site" (part_000) or "flags" (features.js)
    activeButtons,   \* filter buttons carrying class active
    hiddenCards,     \* project cards carrying class hidden
    filterListeners, \* click listeners registered on each filter button
    lastClicked,     \* the filter button clicked last (0: none yet)
    prevClicked,     \* the filter button clicked before that (0: none)
    filterOp         \* the filter event handled last

envVars == <<markup, storeMode>>

vars ==
    <<markup, kids, mobileMarked, icon, label, darkTheme, store, storeMode, innerWidth,
      pageState, resizeListeners, mobileInit, hamburger, navOpen, navDisplay, hamDisplay,
      ariaExpanded, lastOp, lastThrew, placeLog, placedClass, lastSaved,
      storeReads, storeWrites, warned, clickTarget,
      scrollListeners, pageYOffset, lastScrollTop, scrollTimeout, pendingTimers,
      nextTimerId, navHidden, evalsSinceSignal, burstSignals, scrollOp,
      filterScript, activeButtons, hiddenCards, filterListeners, lastClicked,
      prevClicked, filterOp>>

\* everything of the page but the viewport width and the load state
pageVars ==
    <<markup, kids, mobileMarked, icon, label, darkTheme, store, storeMode,
      resizeListeners, mobileInit, hamburger, navOpen, navDisplay, hamDisplay,
      ariaExpanded, lastOp, lastThrew, placeLog, placedClass, lastSaved,
      storeReads, storeWrites, warned, clickTarget>>

scrollVars ==
    <<scrollListeners, pageYOffset, lastScrollTop, scrollTimeout, pendingTimers,
      nextTimerId, navHidden, evalsSinceSignal, burstSignals, scrollOp>>

filterVars ==
    <<filterScript, activeButtons, hiddenCards, filterListeners, lastClicked,
      prevClicked, filterOp>>

StoreValues == {"absent", "dark", "light", "blue"}

StoreModes == {"ok", "readonly", "denied"}

\* the mutable page state as one record, threaded through the handlers
Cur ==
    [kids |-> kids, mobile |-> mobileMarked, icon |-> icon, label |-> label,
     dark |-> darkTheme, store |-> store, listeners |-> resizeListeners,
     mobileInit |-> mobileInit, ham |-> hamburger, navOpen |-> navOpen,
     navDisplay |-> navDisplay, hamDisplay |-> hamDisplay, aria |-> ariaExpanded,
     threw |-> FALSE, log |-> <<>>, placed |-> placedClass, saved |-> lastSaved,
     reads |-> 0, writes |-> 0, warned |-> FALSE]

\* the page right after the markup is parsed, before the script runs
FreshPage(m, st, sv) ==
    [kids |-> MarkupKids(m), mobile |-> {}, icon |-> MarkupIcon(m), label |-> MarkupLabel(m),
     dark |-> FALSE, store |-> st, listeners |-> <<>>,
     mobileInit |-> FALSE, ham |-> NoNode, navOpen |-> FALSE,
     navDisplay |-> "", hamDisplay |-> "", aria |-> FALSE,
     threw |-> FALSE, log |-> <<>>, placed |-> "none", saved |-> sv,
     reads |-> 0, writes |-> 0, warned |-> FALSE]

Commit(s) ==
    /\ kids' = s.kids
    /\ mobileMarked' = s.mobile
    /\ icon' = s.icon
    /\ label' = s.label
    /\ darkTheme' = s.dark
    /\ store' = s.store
    /\ resizeListeners' = s.listeners
    /\ mobileInit' = s.mobileInit
    /\ hamburger' = s.ham
    /\ navOpen' = s.navOpen
    /\ navDisplay' = s.navDisplay
    /\ hamDisplay' = s.hamDisplay
    /\ ariaExpanded' = s.aria
    /\ lastThrew' = s.threw
    /\ placeLog' = s.log
    /\ placedClass' = s.placed
    /\ lastSaved' = s.saved
    /\ storeReads' = s.reads
    /\ storeWrites' = s.writes
    /\ warned' = s.warned

\* ------------------------------------------------------------------------
\* Dark mode
\* ------------------------------------------------------------------------

\* localStorage.getItem / setItem raise when the store refuses the access
ReadThrows(mode) == mode = "denied"

WriteThrows(mode) == mode \in {"readonly", "denied"}

\* the two names exchanged
StoredNameSwapped(isDark) == IF isDark THEN "light" ELSE "dark"

\* the string toggleTheme persists for a theme
StoredName(isDark) == IF isDark THEN "dark" ELSE "light"

\* a comparison with the wrong spelling
StoredIsDarkMisspelt(value) == value = "Dark"

\* a comparison that takes everything but "light" for Dark
StoredIsDarkUnlessLight(value) == value # "light"

\* what loadSavedTheme makes of a stored string
StoredIsDark(value) == value = "dark"

\* querySelector in place of querySelectorAll: only the first toggle
SyncFirstOnly(k) == {QuerySelector(k, ToggleNodes)} \ {NoNode}

\* the toggles a sync reaches: all of them, not just the first found
SyncTargets(k) == QuerySelectorAll(k, ToggleNodes)

\* the forEach body: each sub-element is updated only if the button has it
SyncButtons(s, all, isDark) ==
    [s EXCEPT
        !.icon = [t \in ToggleNodes |->
                    IF t \in all /\ s.icon[t] # NoElt THEN Glyph(isDark) ELSE s.icon[t]],
        !.label = [t \in ToggleNodes |->
                    IF t \in all /\ s.label[t] # NoElt THEN LabelText(isDark) ELSE s.label[t]]]

updateAllToggleButtons(s, isDark) == SyncButtons(s, SyncTargets(s.kids), isDark)

\* localStorage.setItem('theme', ...): raises instead of writing when refused
SaveTheme(s, isDark, mode) ==
    IF WriteThrows(mode) THEN [s EXCEPT !.threw = TRUE]
    ELSE [s EXCEPT !.store = StoredName(isDark),
                   !.saved = IF isDark THEN "Dark" ELSE "Light",
                   !.writes = @ + 1]

\* a toggle that can only switch to Dark (classList.add in place of toggle)
toggleThemeOneWay(s, mode) ==
    SaveTheme(updateAllToggleButtons([s EXCEPT !.dark = TRUE], TRUE), TRUE, mode)

toggleTheme(s, mode) ==
    IF ~darkModeEnabled THEN s
    ELSE LET flipped == [s EXCEPT !.dark = ~s.dark]
             isDark == flipped.dark
         IN  SaveTheme(updateAllToggleButtons(flipped, isDark), isDark, mode)

\* a load that applies nothing
loadSavedThemeSkipped(s, mode) == s

loadSavedTheme(s, mode) ==
    IF ~darkModeEnabled THEN s
    ELSE IF ReadThrows(mode) THEN [s EXCEPT !.threw = TRUE]
    ELSE IF StoredIsDark(s.store) THEN [s EXCEPT !.dark = TRUE, !.reads = @ + 1]
    ELSE [s EXCEPT !.reads = @ + 1]

\* ------------------------------------------------------------------------
\* Placement of the toggle
\* ------------------------------------------------------------------------

\* a strict comparison
IsMobileWidthStrict(w) == w < MOBILE_BREAKPOINT

\* window.innerWidth <= MOBILE_BREAKPOINT
IsMobileWidth(w) == w <= MOBILE_BREAKPOINT

ViewportClass(w) == IF IsMobileWidth(w) THEN "Mobile" ELSE "Desktop"

\* a lookup that never finds the container
FindNoContainer(k) == NoNode

\* .mobile-tools || .header-actions || null
FindMobileContainer(k) ==
    IF QuerySelector(k, MobileToolsNodes) # NoNode THEN QuerySelector(k, MobileToolsNodes)
    ELSE QuerySelector(k, HeaderActionsNodes)

\* a placement that never moves the button
NeverMoves(k, button, target) == FALSE

\* a placement that appends the button on every call
AlwaysMoves(k, button, target) == TRUE

\* button.parentNode !== target
NeedsMove(k, button, target) == ParentNode(k, button) # target

NextFree(pool, used) == pool[Min(Cardinality(used) + 1, Len(pool))]

\* a new .mobile-tools inserted after the hamburger, else before the nav, else first in body
CreateMobileContainer(k) ==
    LET mc == NextFree(ContainerPool, QuerySelectorAll(k, CreatedContainers))
        navToggle == QuerySelector(k, NavToggleNodes)
        nav == QuerySelector(k, {Nav})
    IN  IF navToggle # NoNode /\ ParentNode(k, navToggle) # NoNode
        THEN [node |-> mc,
              kids |-> InsertBefore(k, ParentNode(k, navToggle), mc, NextSibling(k, navToggle))]
        ELSE IF nav # NoNode /\ ParentNode(k, nav) # NoNode
        THEN [node |-> mc, kids |-> InsertBefore(k, ParentNode(k, nav), mc, nav)]
        ELSE [node |-> mc, kids |-> InsertBefore(k, Body, mc, FirstChild(k, Body))]

\* one placement call as recorded in placeLog
PlaceEntry(s, w, button, target, move, made) ==
    [button |-> button, width |-> w, from |-> ParentNode(s.kids, button), to |-> target,
     moved |-> move, made |-> made, prev |-> s.placed]

\* the Mobile branch, c being the container found or just created
PlaceInContainer(s, w, button, c, made) ==
    [s EXCEPT
        !.kids = IF NeedsMove(c.kids, button, c.node)
                 THEN AppendChild(c.kids, c.node, button) ELSE c.kids,
        !.mobile = @ \cup {button},
        !.placed = ViewportClass(w),
        !.log = Append(@, PlaceEntry(s, w, button, c.node,
                                     NeedsMove(c.kids, button, c.node), made))]

\* the Desktop branch
PlaceInNav(s, w, button, nav) ==
    [s EXCEPT
        !.kids = IF nav # NoNode /\ NeedsMove(s.kids, button, nav)
                 THEN AppendChild(s.kids, nav, button) ELSE s.kids,
        !.mobile = @ \ {button},
        !.placed = ViewportClass(w),
        !.log = Append(@, PlaceEntry(s, w, button, nav,
                                     nav # NoNode /\ NeedsMove(s.kids, button, nav), FALSE))]

PlaceButton(s, w, button, found) ==
    IF button = NoNode THEN s
    ELSE IF IsMobileWidth(w)
    THEN PlaceInContainer(s, w, button,
            IF found = NoNode THEN CreateMobileContainer(s.kids)
            ELSE [node |-> found, kids |-> s.kids],
            found = NoNode)
    ELSE PlaceInNav(s, w, button, QuerySelector(s.kids, {Nav}))

placeThemeToggleForViewport(s, w) ==
    PlaceButton(s, w, QuerySelector(s.kids, ToggleNodes), FindMobileContainer(s.kids))

AddListener(ls, l) == IF l \in SeqRange(ls) THEN ls ELSE Append(ls, l)

\* a check that never finds the existing instance
ToggleNeverExists(k) == FALSE

\* document.querySelector('.theme-toggle') is not null
ToggleExists(k) == QuerySelector(k, ToggleNodes) # NoNode

\* the button addThemeToggleButton builds from the current theme and appends to parent
BuildToggle(s, parent) ==
    LET button == NextFree(TogglePool, QuerySelectorAll(s.kids, CreatedToggles))
    IN  [s EXCEPT !.icon[button] = Glyph(s.dark),
                  !.label[button] = LabelText(s.dark),
                  !.kids = AppendChild(s.kids, parent, button)]

\* a version that falls back to the body when the nav is missing
addThemeToggleButtonInBody(s, w) ==
    LET nav == QuerySelector(s.kids, {Nav})
        parent == IF nav = NoNode THEN Body ELSE nav
    IN  IF ToggleExists(s.kids)
        THEN placeThemeToggleForViewport(updateAllToggleButtons(s, s.dark), w)
        ELSE [placeThemeToggleForViewport(BuildToggle(s, parent), w)
                EXCEPT !.listeners = AddListener(@, "place"), !.warned = nav = NoNode]

addThemeToggleButton(s, w) ==
    LET nav == QuerySelector(s.kids, {Nav})
    IN  IF ~darkModeEnabled THEN s
        ELSE IF nav = NoNode THEN [s EXCEPT !.warned = TRUE]
        ELSE IF ToggleExists(s.kids)
        THEN placeThemeToggleForViewport(updateAllToggleButtons(s, s.dark), w)
        ELSE [placeThemeToggleForViewport(BuildToggle(s, nav), w)
                EXCEPT !.listeners = AddListener(@, "place")]

\* ------------------------------------------------------------------------
\* Mobile navigation (hamburger)
\* ------------------------------------------------------------------------

\* a closeNav that leaves aria-expanded as it was
closeNavKeepsAria(s) == [s EXCEPT !.navOpen = FALSE, !.navDisplay = "none"]

closeNav(s) == [s EXCEPT !.navOpen = FALSE, !.navDisplay = "none", !.aria = FALSE]

openNav(s) == [s EXCEPT !.navOpen = TRUE, !.navDisplay = "block", !.aria = TRUE]

updateNavDisplay(s, w) ==
    IF IsMobileWidth(w)
    THEN placeThemeToggleForViewport(
            [s EXCEPT !.navDisplay = IF s.navOpen THEN @ ELSE "none", !.hamDisplay = ""], w)
    ELSE placeThemeToggleForViewport(
            [s EXCEPT !.navDisplay = "", !.hamDisplay = "none",
                      !.navOpen = FALSE, !.aria = FALSE], w)

initMobileNav(s, w) ==
    LET nav == QuerySelector(s.kids, {Nav})
        toggle == NextFree(HamburgerPool, QuerySelectorAll(s.kids, CreatedHamburgers))
    IN  IF nav = NoNode THEN s
        ELSE IF s.mobileInit THEN s
        ELSE updateNavDisplay(
                [s EXCEPT
                    !.mobileInit = TRUE,
                    !.ham = toggle,
                    !.aria = FALSE,
                    !.kids = IF ParentNode(s.kids, nav) # NoNode
                             THEN InsertBefore(s.kids, ParentNode(s.kids, nav), toggle, nav)
                             ELSE InsertBefore(s.kids, Body, toggle, FirstChild(s.kids, Body)),
                    !.listeners = Append(@, "navDisplay")], w)

\* click listener of the hamburger
onHamburgerClick(s) == IF ~s.navOpen THEN openNav(s) ELSE closeNav(s)

\* a document click listener that closes the nav at any width
onDocumentClickAnyWidth(s, w, target) ==
    IF /\ s.mobileInit
       /\ ~Contains(s.kids, Nav, target)
       /\ ~Contains(s.kids, s.ham, target)
    THEN closeNav(s) ELSE s

\* click listener of the document
onDocumentClick(s, w, target) ==
    IF /\ s.mobileInit
       /\ IsMobileWidth(w)
       /\ ~Contains(s.kids, Nav, target)
       /\ ~Contains(s.kids, s.ham, target)
    THEN closeNav(s) ELSE s

\* click listener of every nav link
onNavLinkClick(s, w) == IF s.mobileInit /\ IsMobileWidth(w) THEN closeNav(s) ELSE s

\* ------------------------------------------------------------------------
\* Initialisation
\* ------------------------------------------------------------------------

initializeAll(s, w, mode) ==
    LET loaded == loadSavedTheme(s, mode)
    IN  IF loaded.threw THEN loaded
        ELSE initMobileNav(addThemeToggleButton(loaded, w), w)

\* one listener of window 'resize'
RunListener(s, l, w) ==
    IF l = "place" THEN placeThemeToggleForViewport(s, w) ELSE updateNavDisplay(s, w)

RECURSIVE RunListeners(_, _, _)
RunListeners(s, ls, w) ==
    IF ls = <<>> THEN s ELSE RunListeners(RunListener(s, Head(ls), w), Tail(ls), w)

\* ------------------------------------------------------------------------
\* Events
\* ------------------------------------------------------------------------

\* the element pools are not exhausted
CapsHold(inDoc, listeners) ==
    /\ Cardinality(inDoc \cap CreatedContainers) <= MaxContainers
    /\ Cardinality(inDoc \cap CreatedToggles) <= MaxCreatedToggles
    /\ Cardinality(inDoc \cap CreatedHamburgers) <= MaxHamburgers
    /\ Len(listeners) <= MaxHamburgers + 1

WithinCaps(s) == CapsHold(SeqRange(DocOrder(s.kids)), s.listeners)

\* the event op, a click on target if target is an element, handled to completion
HandledAt(s, op, target) ==
    \E r \in {s} :
        /\ WithinCaps(r)
        /\ Commit(r)
        /\ lastOp' = op
        /\ clickTarget' = target
        /\ UNCHANGED <<scrollVars, filterVars>>

\* the scroll-hide state at script start: let lastScrollTop = 0; let scrollTimeout;
ScrollIdle ==
    /\ scrollListeners = 0
    /\ pageYOffset = 0
    /\ lastScrollTop = 0
    /\ scrollTimeout = 0
    /\ pendingTimers = {}
    /\ nextTimerId = 1
    /\ navHidden = FALSE
    /\ evalsSinceSignal = 0
    /\ burstSignals = 0
    /\ scrollOp = "load"

\* a page without filter buttons (not the projects page)
FiltersIdle ==
    /\ filterScript = "site"
    /\ activeButtons = {}
    /\ hiddenCards = {}
    /\ filterListeners = 0
    /\ lastClicked = 0
    /\ prevClicked = 0
    /\ filterOp = "load"

\* the page as parsed from markup, before the script has run
Parsed ==
    /\ pageState = "fresh"
    /\ lastOp = "load"
    /\ lastThrew = FALSE
    /\ placeLog = <<>>
    /\ placedClass = "none"
    /\ lastSaved = "none"
    /\ storeReads = 0
    /\ storeWrites = 0
    /\ warned = FALSE
    /\ clickTarget = NoNode
    /\ kids = MarkupKids(markup)
    /\ mobileMarked = {}
    /\ icon = MarkupIcon(markup)
    /\ label = MarkupLabel(markup)
    /\ darkTheme = FALSE
    /\ resizeListeners = <<>>
    /\ mobileInit = FALSE
    /\ hamburger = NoNode
    /\ navOpen = FALSE
    /\ navDisplay = ""
    /\ hamDisplay = ""
    /\ ariaExpanded = FALSE

Handled(s, op) == HandledAt(s, op, NoNode)

Init ==
    /\ markup \in Markups
    /\ store \in StoreValues
    /\ storeMode \in StoreModes
    /\ innerWidth \in Widths
    /\ Parsed
    /\ ScrollIdle
    /\ FiltersIdle

\* the script is evaluated while the document is still loading
RunScriptLoading ==
    /\ pageState = "fresh"
    /\ ~loadSavedTheme(Cur, storeMode).threw
    /\ Handled(loadSavedTheme(Cur, storeMode), "script")
    /\ pageState' = "evaluated"
    /\ UNCHANGED <<envVars, innerWidth>>

\* the script is evaluated after the document is ready: initializeAll runs at once
RunScriptReady ==
    /\ pageState = "fresh"
    /\ ~loadSavedTheme(Cur, storeMode).threw
    /\ Handled(initializeAll(loadSavedTheme(Cur, storeMode), innerWidth, storeMode), "script")
    /\ pageState' = "ready"
    /\ UNCHANGED <<envVars, innerWidth>>

\* the first loadSavedTheme raises: the rest of the script never runs
RunScriptAborts ==
    /\ pageState = "fresh"
    /\ loadSavedTheme(Cur, storeMode).threw
    /\ Handled(loadSavedTheme(Cur, storeMode), "script")
    /\ pageState' = "aborted"
    /\ UNCHANGED <<envVars, innerWidth>>

DOMContentLoaded ==
    /\ pageState = "evaluated"
    /\ Handled(initializeAll(Cur, innerWidth, storeMode), "init")
    /\ pageState' = "ready"
    /\ UNCHANGED <<envVars, innerWidth>>

\* initializeAll invoked again from another entry point
ReInit ==
    /\ pageState = "ready"
    /\ Handled(initializeAll(Cur, innerWidth, storeMode), "init")
    /\ UNCHANGED <<envVars, innerWidth, pageState>>

\* window.toggleTheme() invoked from outside the script
CallToggle ==
    /\ pageState # "fresh"
    /\ Handled(toggleTheme(Cur, storeMode), "toggle")
    /\ UNCHANGED <<envVars, innerWidth, pageState>>

\* click on a toggle instance: its onclick, then the document's click listener
ClickToggle(t) ==
    /\ pageState # "fresh"
    /\ HandledAt(onDocumentClick(toggleTheme(Cur, storeMode), innerWidth, t), "clickToggle", t)
    /\ UNCHANGED <<envVars, innerWidth, pageState>>

\* click on the hamburger (stopPropagation: the document listener is not reached)
ClickHamburger ==
    /\ mobileInit
    /\ hamDisplay # "none"
    /\ HandledAt(onHamburgerClick(Cur), "hamburger", hamburger)
    /\ UNCHANGED <<envVars, innerWidth, pageState>>

\* elements outside the nav and the hamburger that a click may hit
OutsideTargets == {Main}

\* click on an element outside the nav and the hamburger
ClickOutside(target) ==
    /\ HandledAt(onDocumentClick(Cur, innerWidth, target), "clickOutside", target)
    /\ UNCHANGED <<envVars, innerWidth, pageState>>

\* click on a link of the nav: its listener, then the document's
ClickNavLink ==
    /\ markup.nav
    /\ navDisplay # "none"
    /\ HandledAt(onDocumentClick(onNavLinkClick(Cur, innerWidth), innerWidth, NavLink),
                 "navLink", NavLink)
    /\ UNCHANGED <<envVars, innerWidth, pageState>>

\* the window is resized to width w: every resize listener runs
Resize(w) ==
    /\ innerWidth' = w
    /\ Handled(RunListeners(Cur, resizeListeners, w), "resize")
    /\ UNCHANGED <<envVars, pageState>>

\* the page is loaded again: the markup is parsed afresh, the store survives
Reload ==
    /\ pageState # "fresh"
    /\ Handled(FreshPage(markup, store, lastSaved), "load")
    /\ pageState' = "fresh"
    /\ UNCHANGED <<envVars, innerWidth>>

Next ==
    \/ RunScriptLoading
    \/ RunScriptReady
    \/ RunScriptAborts
    \/ DOMContentLoaded
    \/ ReInit
    \/ CallToggle
    \/ \E t \in QuerySelectorAll(kids, ToggleNodes) : ClickToggle(t)
    \/ ClickHamburger
    \/ \E target \in QuerySelectorAll(kids, OutsideTargets) : ClickOutside(target)
    \/ ClickNavLink
    \/ \E w \in Widths : Resize(w)
    \/ Reload

Spec == Init /\ [][Next]_vars

\* ------------------------------------------------------------------------
\* Scroll-hide variant: the nav hides on scroll down on Mobile (debounced)
\* ------------------------------------------------------------------------

\* features.mobileNavHide
mobileNavHideEnabled == TRUE

\* scroll offsets explored (below, at and above the threshold of 80; one overscroll)
ScrollOffsets == {-5, 0, 80, 81, 120}

\* the documents of this variant: with and without a nav
ScrollMarkups ==
    {Markup(n, <<"absent", "absent">>, <<"absent", "absent">>, "noLabel") : n \in BOOLEAN}

\* a clearTimeout that cancels nothing
ClearTimeoutNoOp(pending, id) == pending

\* clearTimeout(id): an id that is not pending (or undefined) is ignored
ClearTimeout(pending, id) == pending \ {id}

\* scrollTop > lastScrollTop && scrollTop > 80
ScrollingDown(scrollTop, last) == scrollTop > last /\ scrollTop > 80

\* scrollTop <= 0 ? 0 : scrollTop
ClampedOffset(scrollTop) == IF scrollTop <= 0 THEN 0 ELSE scrollTop

\* the scroll state as one record, threaded through the listeners
ScrollCur ==
    [timeout |-> scrollTimeout, pending |-> pendingTimers, nextId |-> nextTimerId,
     hidden |-> navHidden, evals |-> evalsSinceSignal, set |-> FALSE]

\* one run of the 'scroll' listener
onScroll(s, w) ==
    IF w > MOBILE_BREAKPOINT THEN [s EXCEPT !.hidden = FALSE]
    ELSE [s EXCEPT !.pending = ClearTimeout(s.pending, s.timeout) \cup {s.nextId},
                   !.timeout = s.nextId,
                   !.nextId = s.nextId + 1,
                   !.evals = 0,
                   !.set = TRUE]

RECURSIVE RunScrollListeners(_, _, _)
RunScrollListeners(s, n, w) ==
    IF n = 0 THEN s ELSE RunScrollListeners(onScroll(s, w), n - 1, w)

\* initMobileNavScroll: one more anonymous listener on every call, if there is a nav
initMobileNavScroll(n, hasNav) ==
    IF ~mobileNavHideEnabled THEN n
    ELSE IF ~hasNav THEN n
    ELSE n + 1

\* initializeAll of the variant (first at document-ready, then re-entered)
ScrollPageInit ==
    /\ scrollListeners < MaxScrollInits
    /\ scrollListeners' = initMobileNavScroll(scrollListeners, markup.nav)
    /\ pageState' = "ready"
    /\ scrollOp' = "init"
    /\ UNCHANGED <<pageVars, filterVars, innerWidth, pageYOffset, lastScrollTop, scrollTimeout,
                   pendingTimers, nextTimerId, navHidden, evalsSinceSignal, burstSignals>>

\* the user scrolls to offset y: every registered listener runs
UserScroll(y) ==
    /\ nextTimerId + scrollListeners <= MaxTimers + 1
    /\ pageYOffset' = y
    /\ \E r \in {RunScrollListeners(ScrollCur, scrollListeners, innerWidth)} :
          /\ scrollTimeout' = r.timeout
          /\ pendingTimers' = r.pending
          /\ nextTimerId' = r.nextId
          /\ navHidden' = r.hidden
          /\ evalsSinceSignal' = r.evals
          /\ burstSignals' = IF ~r.set THEN burstSignals
                             ELSE IF pendingTimers = {} THEN 1 ELSE burstSignals + 1
    /\ scrollOp' = "scroll"
    /\ UNCHANGED <<pageVars, filterVars, innerWidth, pageState, scrollListeners, lastScrollTop>>

\* a pending timer fires: the debounced evaluation
ScrollTimerFires(id) ==
    /\ id \in pendingTimers
    /\ pendingTimers' = pendingTimers \ {id}
    /\ navHidden' = ScrollingDown(pageYOffset, lastScrollTop)
    /\ lastScrollTop' = ClampedOffset(pageYOffset)
    /\ evalsSinceSignal' = evalsSinceSignal + 1
    /\ scrollOp' = "timer"
    /\ UNCHANGED <<pageVars, filterVars, innerWidth, pageState, scrollListeners, pageYOffset,
                   scrollTimeout, nextTimerId, burstSignals>>

\* the window is resized: this variant registers no resize listener
ScrollResize(w) ==
    /\ w # innerWidth
    /\ innerWidth' = w
    /\ scrollOp' = "resize"
    /\ UNCHANGED <<pageVars, filterVars, pageState, scrollListeners, pageYOffset, lastScrollTop,
                   scrollTimeout, pendingTimers, nextTimerId, navHidden, evalsSinceSignal,
                   burstSignals>>

InitScroll ==
    /\ markup \in ScrollMarkups
    /\ store = "absent"
    /\ storeMode = "ok"
    /\ innerWidth \in Widths
    /\ Parsed
    /\ ScrollIdle
    /\ FiltersIdle

NextScroll ==
    \/ ScrollPageInit
    \/ \E y \in ScrollOffsets : UserScroll(y)
    \/ \E id \in pendingTimers : ScrollTimerFires(id)
    \/ \E w \in Widths : ScrollResize(w)

SpecScroll == InitScroll /\ [][NextScroll]_vars

\* ------------------------------------------------------------------------
\* Project filters (projects page); strings are sequences of characters
\* ------------------------------------------------------------------------

\* features.projectFilters / featureFlags['project-filters']
projectFiltersEnabled == TRUE

\* the string 'all'
All == <<"a", "l", "l">>

\* data-filter of the buttons, in document order
ButtonFilterPool ==
    <<All, <<"c", "s", "s">>, <<"2", "4">>, <<>>, <<"j">>, <<"p", "y">>>>

\* data-tech and data-year of the cards, in document order (an absent attribute reads '')
CardPool ==
    <<[tech |-> <<"j", "s", " ", "c", "s", "s">>, year |-> <<"2", "4">>],
      [tech |-> <<"p", "y">>, year |-> <<"2", "5">>],
      [tech |-> <<>>, year |-> <<"2", "4">>],
      [tech |-> <<"2", "4">>, year |-> <<>>],
      [tech |-> <<"j">>, year |-> <<"2", "5">>]>>

\* document.querySelectorAll('.filter-btn')
FilterButtons == 1..Min(MaxFilterButtons, Len(ButtonFilterPool))

\* document.querySelectorAll('.projects .card')
ProjectCards == 1..Min(MaxCards, Len(CardPool))

\* button.getAttribute('data-filter')
DataFilter(b) == ButtonFilterPool[b]

\* String.prototype.includes: part occurs in text as a contiguous substring
Includes(text, part) ==
    \E i \in 0..(Len(text) - Len(part)) : SubSeq(text, i + 1, i + Len(part)) = part

\* part_000: filter === 'all' || tech.includes(filter) || year === filter
CardShownSite(filter, card) ==
    filter = All \/ Includes(card.tech, filter) \/ card.year = filter

\* features.js: the 'all' test first, the attributes read only otherwise
CardShownFlags(filter, card) ==
    IF filter = All THEN TRUE
    ELSE Includes(card.tech, filter) \/ card.year = filter

CardShown(script, filter, card) ==
    IF script = "site" THEN CardShownSite(filter, card) ELSE CardShownFlags(filter, card)

\* a handler that leaves the active marker on the other buttons
KeepActive(active) == active

\* filterButtons.forEach(btn => btn.classList.remove('active'))
ClearActive(active) == {}

\* one run of a button's click listener
onFilterClick(s, script, b) ==
    [active |-> ClearActive(s.active) \cup {b},
     hidden |-> {c \in ProjectCards : ~CardShown(script, DataFilter(b), CardPool[c])}]

RECURSIVE RunFilterListeners(_, _, _, _)
RunFilterListeners(s, n, script, b) ==
    IF n = 0 THEN s ELSE RunFilterListeners(onFilterClick(s, script, b), n - 1, script, b)

\* initProjectFilters / initializeProjectFilters: a listener on every button
initProjectFilters(n) ==
    IF ~projectFiltersEnabled THEN n
    ELSE IF FilterButtons = {} THEN n
    ELSE n + 1

\* initializeAll on the projects page (first at document-ready, then re-entered)
FilterPageInit ==
    /\ filterListeners < MaxFilterInits
    /\ filterListeners' = initProjectFilters(filterListeners)
    /\ pageState' = "ready"
    /\ filterOp' = "init"
    /\ UNCHANGED <<pageVars, scrollVars, innerWidth, filterScript, activeButtons,
                   hiddenCards, lastClicked, prevClicked>>

\* a click on filter button b: every listener registered on it runs
ClickFilter(b) ==
    /\ filterListeners > 0
    /\ \E r \in {RunFilterListeners([active |-> activeButtons, hidden |-> hiddenCards],
                                     filterListeners, filterScript, b)} :
          /\ activeButtons' = r.active
          /\ hiddenCards' = r.hidden
    /\ lastClicked' = b
    /\ prevClicked' = lastClicked
    /\ filterOp' = "click"
    /\ UNCHANGED <<pageVars, scrollVars, innerWidth, pageState, filterScript,
                   filterListeners>>

\* the projects page as written: any buttons may be marked active, any cards hidden
InitFilters ==
    /\ markup = Markup(TRUE, <<"absent", "absent">>, <<"absent", "absent">>, "noLabel")
    /\ store = "absent"
    /\ storeMode = "ok"
    /\ innerWidth = MOBILE_BREAKPOINT
    /\ Parsed
    /\ ScrollIdle
    /\ filterScript \in {"site", "flags"}
    /\ activeButtons \in SUBSET FilterButtons
    /\ hiddenCards \in SUBSET ProjectCards
    /\ filterListeners = 0
    /\ lastClicked = 0
    /\ prevClicked = 0
    /\ filterOp = "load"

NextFilters ==
    \/ FilterPageInit
    \/ \E b \in FilterButtons : ClickFilter(b)

SpecFilters == InitFilters /\ [][NextFilters]_vars

\* ------------------------------------------------------------------------
\* Properties
\* ------------------------------------------------------------------------

\* the toggle instances of the document
Instances == QuerySelectorAll(kids, ToggleNodes)

\* the last event was a toggle() call (direct, or through a click on an instance)
ToggledLast == lastOp \in {"toggle", "clickToggle"}

\* the last event ran initializeAll
InitialisedLast == pageState = "ready" /\ lastOp \in {"script", "init"}

\* instance t shows the icon and the label of the current theme
ShowsTheme(t) ==
    /\ icon[t] # NoElt => icon[t] = Glyph(darkTheme)
    /\ label[t] # NoElt => label[t] = LabelText(darkTheme)

\* C1: after every completed toggle() the root marker and the persisted value agree:
\* marker present iff the store holds "dark", marker absent iff it holds "light".
C1_MarkerMatchesStoreAfterToggle ==
    (ToggledLast /\ ~lastThrew) =>
        /\ darkTheme <=> store = "dark"
        /\ ~darkTheme <=> store = "light"

\* C1 witness: a completed toggle on an initialised page left the marker set and "dark" stored
C1_Witness ==
    /\ ToggledLast /\ ~lastThrew /\ pageState = "ready"
    /\ darkTheme /\ store = "dark"

\* C2: after updateAllToggleButtons(state) every instance that has an icon shows the glyph
\* of state and every instance that has a label shows the label of state; a missing
\* sub-element stays missing and raises nothing.
C2_SyncReachesEveryInstance ==
    (ToggledLast \/ (InitialisedLast /\ markup.nav)) =>
        /\ \A t \in Instances : ShowsTheme(t)
        /\ \A t \in Instances \cap MarkupToggles :
              /\ icon[t] = NoElt <=> MarkupIcon(markup)[t] = NoElt
              /\ label[t] = NoElt <=> MarkupLabel(markup)[t] = NoElt
        /\ storeMode = "ok" => ~lastThrew

\* C2 witness: two instances, the second without a label, synced to Dark by a toggle
C2_Witness ==
    /\ ToggledLast /\ darkTheme
    /\ Instances = {"t1", "t2"}
    /\ icon["t1"] = "sun" /\ label["t1"] = "Light"
    /\ icon["t2"] = "sun" /\ label["t2"] = NoElt

\* C3: once initialisation has run, whatever the document (nav or not, any number of
\* markup instances, any stored preference) and whatever toggles and resizes follow,
\* every toggle instance shows the icon and label of the current theme.
C3_InstancesShowThemeAfterInit ==
    pageState = "ready" => \A t \in Instances : ShowsTheme(t)

\* parent of every toggle instance
ToggleParents(k) == [t \in ToggleNodes |-> ParentNode(k, t)]

\* C4: placeThemeToggleForViewport is idempotent from every reachable document state:
\* a second call with the same viewport leaves the parent and the theme-toggle-mobile
\* marker of every toggle instance as the first call left them.
C4_PlacementIdempotent ==
    [][(/\ lastOp = "resize" /\ placeLog # <<>>
        /\ lastOp' = "resize" /\ placeLog' # <<>>
        /\ innerWidth' = innerWidth)
        => (/\ ToggleParents(kids') = ToggleParents(kids)
            /\ mobileMarked' = mobileMarked)]_vars

\* the document has a nav and exactly one toggle instance
SoleToggle == markup.nav /\ Cardinality(Instances) = 1

TheToggle == CHOOSE t \in Instances : TRUE

\* C5: once a resize signal has been handled the toggle is a direct child of the mobile
\* container and carries theme-toggle-mobile when the width is <= 768, and is a direct
\* child of the nav without the marker when the width is > 768, whatever came before.
C5_PlacementFollowsFinalWidth ==
    (lastOp = "resize" /\ resizeListeners # <<>> /\ SoleToggle) =>
        IF innerWidth <= 768
        THEN /\ ParentNode(kids, TheToggle) \in MobileToolsNodes \cup HeaderActionsNodes
             /\ TheToggle \in mobileMarked
        ELSE /\ ParentNode(kids, TheToggle) = Nav
             /\ TheToggle \notin mobileMarked

\* C5 witness: the script-created toggle, moved to the nav and back, sits in the container
C5_Witness ==
    /\ lastOp = "resize" /\ SoleToggle /\ innerWidth = 768
    /\ ParentNode(kids, "tb1") = "mc1" /\ "tb1" \in mobileMarked
    /\ placeLog[1].prev = "Desktop"

\* the placement calls of the last event
Placements == {placeLog[i] : i \in 1..Len(placeLog)}

\* C6 as stated: a placement at width 768 takes the Desktop branch (marker removed) and a
\* placement at width 769 takes the Mobile branch (marker added).
C6_BoundaryAsStated ==
    \A e \in Placements :
        /\ e.width = 768 => e.button \notin mobileMarked
        /\ e.width = 769 => e.button \in mobileMarked

\* C6 amended: a width of exactly 768 is Mobile (marker added, toggle in the mobile
\* container) and a width of 769 is Desktop (marker removed): the breakpoint is inclusive
\* on the Mobile side.
C6_BoundaryInclusiveMobile ==
    \A e \in Placements :
        /\ e.width = 768 =>
              /\ e.button \in mobileMarked
              /\ e.to \in MobileToolsNodes \cup HeaderActionsNodes
              /\ ViewportClass(e.width) = "Mobile"
        /\ e.width = 769 =>
              /\ e.button \notin mobileMarked
              /\ e.to \in {Nav, NoNode}
              /\ ViewportClass(e.width) = "Desktop"

\* C6 witness: placements at both sides of the boundary have happened
C6_Witness ==
    /\ lastOp = "resize" /\ innerWidth = 768 /\ placedClass = "Mobile"
    /\ \E e \in Placements : e.width = 768 /\ e.prev = "Desktop" /\ e.moved

\* how often element n occurs in the children lists
Occurrences(k, n) ==
    Cardinality({<<p, i>> \in Nodes \X (1..Len(DocOrder(k))) : i <= Len(k[p]) /\ k[p][i] = n})

\* C7: from its creation on the toggle is a child of exactly one container: never in the
\* nav and the mobile container at once, and never duplicated, whatever resizes and
\* re-initialisations occur.
C7_ToggleInExactlyOneContainer ==
    /\ \A t \in Instances : Occurrences(kids, t) = 1 /\ Cardinality(ParentsOf(kids, t)) = 1
    /\ Cardinality(Instances \cap CreatedToggles) <= 1
    /\ \A t \in ToggleNodes \ Instances : Occurrences(kids, t) = 0

\* C7 witness: the created toggle has been moved to the container and initialisation re-run
C7_Witness ==
    /\ lastOp = "init" /\ placedClass = "Mobile"
    /\ ParentsOf(kids, "tb1") = {"mc1"}
    /\ \E e \in Placements : e.prev = "Mobile"

\* C8: the placement logic creates at most one mobile-tools container; a placement call
\* moves the toggle only when its parent differs from the target container; a placement
\* call with an unchanged viewport class moves nothing.
C8_NoDuplicateContainerNoNeedlessMove ==
    /\ Cardinality(QuerySelectorAll(kids, CreatedContainers)) <= 1
    /\ \A e \in Placements : e.moved => e.from # e.to
    /\ SoleToggle => \A e \in Placements : e.prev = ViewportClass(e.width) => ~e.moved /\ ~e.made

\* C8 witness: the container was created, and a later resize within Mobile moved nothing
C8_Witness ==
    /\ lastOp = "resize" /\ SoleToggle
    /\ QuerySelectorAll(kids, CreatedContainers) = {"mc1"}
    /\ \E e \in Placements : e.prev = "Mobile" /\ e.width = 768 /\ ~e.moved /\ e.from = "mc1"

\* C9: when the store is unavailable no error escapes loadSavedTheme or toggleTheme and the
\* page script with its initialisation keeps running.
C9_StoreFailureContained ==
    storeMode # "ok" => (~lastThrew /\ pageState # "aborted")

\* C10: when a toggle() produced theme s and saved it, a fresh page load (marker absent)
\* whose loadSavedTheme reads the store shows s again.
C10_RoundTripAcrossLoads ==
    (lastOp = "script" /\ ~lastThrew /\ lastSaved # "none") =>
        (darkTheme <=> lastSaved = "Dark")

\* C10 witness: Dark was saved by a toggle and is shown again after a reload
C10_Witness ==
    /\ lastOp = "script" /\ ~lastThrew /\ lastSaved = "Dark" /\ darkTheme
    /\ pageState = "evaluated"

\* C11: loadSavedTheme maps the stored value "dark" to Dark (marker added) and every
\* other stored value, an absent one included, to Light (marker absent); from an empty
\* store, the load followed by one toggle() gives Dark, marker present, "dark" stored.
C11_LoadMapsStoredValueThenToggle ==
    /\ [](lastOp = "script" /\ ~lastThrew => (darkTheme <=> store = "dark"))
    /\ [][(/\ lastOp = "script" /\ ~lastThrew /\ store = "absent"
           /\ lastOp' \in {"toggle", "clickToggle"} /\ ~lastThrew')
           => (~darkTheme /\ darkTheme' /\ store' = "dark")]_vars

\* C11 witness: a stored value that is neither "dark" nor "light" was loaded as Light
C11_Witness ==
    /\ lastOp = "script" /\ ~lastThrew /\ storeReads > 0
    /\ store = "blue" /\ ~darkTheme

\* C12: in a document without a nav, addThemeToggleButton logs a warning, creates no
\* toggle instance, registers no resize listener, leaves the document as it was and
\* raises nothing.
C12_NoNavWarnsAndChangesNothing ==
    (~markup.nav /\ InitialisedLast) =>
        /\ warned
        /\ ~lastThrew
        /\ Instances \cap CreatedToggles = {}
        /\ resizeListeners = <<>>
        /\ kids = MarkupKids(markup)
        /\ mobileMarked = {}
        /\ lastOp = "script" => (icon = MarkupIcon(markup) /\ label = MarkupLabel(markup))

\* C12 witness: initialisation has run in a nav-less document that holds a markup toggle
C12_Witness ==
    /\ ~markup.nav /\ InitialisedLast /\ warned
    /\ "t1" \in Instances /\ innerWidth = 768

\* C13: once the first preference load has been applied, no event other than a toggle
\* (resize, re-entrant initialisation with its repeated load, hamburger, outside and
\* nav-link clicks) changes the root marker or the persisted value.
C13_OnlyToggleMutatesTheme ==
    [][(/\ pageState \in {"evaluated", "ready"}
        /\ lastOp' \notin {"toggle", "clickToggle", "load"})
        => (darkTheme' = darkTheme /\ store' = store)]_vars

\* how often listener l is registered
ListenerCount(ls, l) == Cardinality({i \in 1..Len(ls) : ls[i] = l})

\* C14: addThemeToggleButton may be re-entered: with an instance present it creates no
\* further instance and registers no further resize listener, re-syncs every instance
\* to the current theme and re-evaluates the placement for the current viewport; the
\* script-created instances never number more than one.
C14_ReentrantInitCreatesNothingNew ==
    /\ Cardinality(Instances \cap CreatedToggles) <= 1
    /\ ListenerCount(resizeListeners, "place") = Cardinality(Instances \cap CreatedToggles)
    /\ (InitialisedLast /\ markup.nav) =>
          /\ Instances # {}
          /\ \A t \in Instances : ShowsTheme(t)
          /\ placeLog # <<>>
          /\ \A e \in Placements : e.width = innerWidth /\ e.button \in Instances
          /\ placedClass = ViewportClass(innerWidth)

\* C14 witness: initializeAll re-run on a page whose created toggle had been placed and
\* toggled to Dark before
C14_Witness ==
    /\ InitialisedLast /\ lastOp = "init" /\ markup.nav
    /\ Instances = {"tb1"} /\ darkTheme /\ icon["tb1"] = "sun"
    /\ placeLog # <<>> /\ placeLog[1].prev = "Desktop" /\ innerWidth = 769

\* a placement call of the last event created the mobile container
ContainerMadeLast == \E e \in Placements : e.made

\* the container the script created
MadeContainer == QuerySelector(kids, CreatedContainers)

\* C15: a newly created mobile container sits right after the hamburger control if the
\* document has one, otherwise right before the nav, otherwise first in the body; so
\* after a page initialisation on a Mobile viewport that created both the hamburger and
\* the container, the container is the hamburger's next sibling.
C15_ContainerNextToHamburger ==
    ContainerMadeLast =>
        IF hamburger # NoNode THEN NextSibling(kids, hamburger) = MadeContainer
        ELSE IF markup.nav THEN NextSibling(kids, MadeContainer) = Nav
        ELSE FirstChild(kids, Body) = MadeContainer

\* the toggle instance the last event constructed (NoNode if it constructed none)
BuiltLast ==
    IF /\ placeLog # <<>>
       /\ placeLog[1].prev = "none"
       /\ placeLog[1].button \in CreatedToggles
    THEN placeLog[1].button ELSE NoNode

\* C16: on every page load the preference is read and the root marker applied before
\* the toggle instance is constructed: the icon and label the instance is built with
\* are those of the theme in force, which is the persisted one, never the opposite.
C16_ToggleBuiltAfterPreferenceLoad ==
    BuiltLast # NoNode =>
        /\ storeReads > 0
        /\ icon[BuiltLast] = Glyph(darkTheme)
        /\ label[BuiltLast] = LabelText(darkTheme)
        /\ storeMode = "ok" => (darkTheme <=> store = "dark")

\* C16 witness: the toggle was built showing the Dark pair on a page whose store held "dark"
C16_Witness ==
    /\ BuiltLast = "tb1" /\ lastOp = "init"
    /\ store = "dark" /\ darkTheme /\ icon["tb1"] = "sun" /\ label["tb1"] = "Light"

\* C17: per page load the store is read exactly once (by the script's first load, by no
\* later event), and it is written exactly once by every toggle and by nothing else.
C17_StoreReadOnceWrittenPerToggle ==
    /\ (lastOp = "script" /\ ~lastThrew) => storeReads = 1
    /\ lastOp \notin {"script", "load"} => storeReads = 0
    /\ (ToggledLast /\ ~lastThrew) => storeWrites = 1
    /\ ~ToggledLast => storeWrites = 0

\* what a user can observe of the theme: root marker, persisted value, every icon and label
ThemeShown(s) == [dark |-> s.dark, store |-> s.store, icon |-> s.icon, label |-> s.label]

\* C18: the toggle is a symmetric two-state machine: from a state left by a toggle, one
\* more toggle() leads to the other theme, and a second one restores the root marker,
\* the persisted value and the icon and label of every instance exactly.
C18_ToggleIsInvolution ==
    [][lastOp' \in {"toggle", "clickToggle"}
        => (/\ darkTheme' = ~darkTheme
            /\ (ToggledLast /\ ~lastThrew /\ ~lastThrew') =>
                  /\ store' = StoredName(~darkTheme)
                  /\ ThemeShown(Cur') # ThemeShown(Cur)
                  /\ ThemeShown(toggleTheme(Cur', storeMode)) = ThemeShown(Cur))]_vars

\* C18 witness: toggles have taken a page with two instances, one of them without a
\* label, to Dark and back to Light
C18_Witness ==
    /\ lastOp = "clickToggle" /\ ~lastThrew /\ pageState = "ready"
    /\ ~darkTheme /\ store = "light" /\ lastSaved = "Light"
    /\ Instances = {"t1", "t2"}
    /\ icon["t1"] = "moon" /\ label["t1"] = "Dark" /\ icon["t2"] = "moon"

\* the step is a scroll signal handled on a Mobile viewport by a registered listener
MobileScrollStep ==
    /\ nextTimerId' # nextTimerId
    /\ scrollOp' = "scroll"

\* the step is the firing of a pending timer
TimerStep ==
    /\ pendingTimers' # pendingTimers
    /\ scrollOp' = "timer"

\* C19: the scroll evaluation is debounced: at most one timer is pending at any time;
\* a scroll signal on Mobile cancels the pending timer and sets one; a burst of signals
\* is followed by exactly one evaluation, which hides the nav iff the offset exceeds
\* both the recorded offset and 80, and then records the offset, negative ones as 0.
C19_ScrollEvaluationDebounced ==
    /\ [](Cardinality(pendingTimers) <= 1)
    /\ [](scrollTimeout # 0 => Cardinality(pendingTimers) + evalsSinceSignal = 1)
    /\ [][MobileScrollStep =>
            /\ innerWidth <= 768
            /\ pendingTimers' \cap pendingTimers = {}
            /\ pendingTimers' = {scrollTimeout'}]_vars
    /\ [][TimerStep =>
            /\ pendingTimers' = {}
            /\ navHidden' = (pageYOffset > lastScrollTop /\ pageYOffset > 80)
            /\ lastScrollTop' = (IF pageYOffset < 0 THEN 0 ELSE pageYOffset)]_vars

\* C19 witness: a burst of two scroll signals was followed by one evaluation, which hid the nav
C19_Witness ==
    /\ scrollOp = "timer" /\ burstSignals = 2 /\ evalsSinceSignal = 1
    /\ scrollListeners = 1 /\ pendingTimers = {}
    /\ navHidden /\ lastScrollTop = 81

\* C20: after any sequence of filter clicks exactly one button, the one clicked last, is
\* active, and a card is hidden iff the last clicked filter is not 'all', does not occur
\* in the card's data-tech and differs from its data-year: earlier clicks do not matter.
C20_FilterShowsByLastClick ==
    filterOp = "click" =>
        /\ activeButtons = {lastClicked}
        /\ \A c \in ProjectCards :
              c \in hiddenCards <=>
                  /\ DataFilter(lastClicked) # All
                  /\ ~Includes(CardPool[c].tech, DataFilter(lastClicked))
                  /\ CardPool[c].year # DataFilter(lastClicked)

\* C20 witness: after a click on another filter, the click on 'css' shows the card whose
\* data-tech is 'js css' and hides the two others
C20_Witness ==
    /\ filterOp = "click" /\ lastClicked = 2 /\ prevClicked = 3
    /\ activeButtons = {2} /\ hiddenCards = {2, 3}

\* C21: in the scroll-hide variant the nav is hidden only on Mobile: whatever the order of
\* scroll signals, resizes and timer firings, after an event handled at a width above
\* 768 the nav does not carry nav-hidden.
C21_NavHiddenOnlyOnMobile ==
    (scrollOp \in {"scroll", "timer", "resize"} /\ innerWidth > MOBILE_BREAKPOINT)
        => ~navHidden

\* C22: once initMobileNav has run, after any hamburger, outside and nav-link clicks and
\* resizes: aria-expanded is "true" iff the nav carries nav-open; on Mobile the nav is
\* displayed iff it carries nav-open; on Desktop the nav is displayed, nav-open is absent
\* and the hamburger is hidden.
C22_HamburgerStateConsistent ==
    mobileInit =>
        /\ ariaExpanded <=> navOpen
        /\ innerWidth <= 768 =>
              /\ navOpen => navDisplay = "block"
              /\ ~navOpen => navDisplay = "none"
              /\ hamDisplay = ""
        /\ innerWidth > 768 =>
              /\ navDisplay = ""
              /\ ~navOpen
              /\ hamDisplay = "none"

\* C22 witness: the nav opened by the hamburger on Mobile after a resize from Desktop
C22_Witness ==
    /\ mobileInit /\ lastOp = "hamburger" /\ innerWidth = 768
    /\ navOpen /\ ariaExpanded /\ navDisplay = "block"
    /\ placedClass = "Mobile" /\ Cardinality(QuerySelectorAll(kids, CreatedContainers)) = 1
    /\ NextSibling(kids, hamburger) = MadeContainer

\* the last event was a click on a nav link or on an element outside nav and hamburger
ClosingClickLast ==
    /\ clickTarget # NoNode
    /\ \/ lastOp = "navLink"
       \/ /\ lastOp \in {"clickOutside", "clickToggle"}
          /\ ~Contains(kids, Nav, clickTarget)

\* C23: on Mobile a click outside the nav and the hamburger (a click on the theme toggle
\* in the mobile container included, which also flips the theme) and a click on a nav
\* link leave the nav closed; on Desktop those clicks leave the nav's open state and
\* display as they were; repeated initMobileNav calls create one hamburger only.
C23_ClicksCloseNavOnMobileOnly ==
    /\ [](Cardinality(QuerySelectorAll(kids, CreatedHamburgers)) =
              (IF mobileInit THEN 1 ELSE 0))
    /\ []((ClosingClickLast /\ mobileInit /\ innerWidth <= 768) =>
              (~navOpen /\ navDisplay = "none" /\ ~ariaExpanded))
    /\ [][(/\ lastOp' \in {"clickOutside", "clickToggle", "navLink"}
           /\ innerWidth > 768)
           => (/\ navOpen' = navOpen
               /\ navDisplay' = navDisplay
               /\ lastOp' = "clickToggle" => darkTheme' = ~darkTheme)]_vars

\* C23 witness: on Mobile, with the page re-initialised, a click on the toggle in the
\* created mobile container flipped the theme to Dark and left the nav closed
C23_Witness ==
    /\ lastOp = "clickToggle" /\ clickTarget = "tb1" /\ innerWidth = 768
    /\ ParentNode(kids, "tb1") = "mc1" /\ darkTheme
    /\ mobileInit /\ ~navOpen /\ navDisplay = "none"

\* C24: the preference load repeated at document-ready never overrides the user's choice:
\* when toggle() has been called between the script's load and the document-ready
\* initialisation, the theme after the initialisation is the one the last toggle
\* produced, and the root marker and the persisted value agree.
C24_ReadyLoadKeepsUserChoice ==
    [][(/\ pageState = "evaluated" /\ ToggledLast
        /\ lastOp' = "init")
        => (/\ darkTheme' = darkTheme
            /\ darkTheme' <=> store' = "dark")]_vars

====
